---- MODULE Spec2Model ----
(***************************************************************************)
(* A model of the searoutes library: the passage-rule engine and the       *)
(* weight-function factory (src/utils/profiles.js), the antimeridian       *)
(* geometry helpers (src/utils/geo.js), the coordinate lookup              *)
(* (src/core/CoordinateLookup.js) and the SeaRoute orchestrator            *)
(* (src/SeaRoutes.js).                                                     *)
(*                                                                         *)
(* Conventions                                                             *)
(*  - a coordinate is <<lon, lat>> in whole degrees;                       *)
(*  - a JavaScript value that can be an edge's fid is a record [t, v]:     *)
(*    t is the kind, v the number it holds (or the number a numeric string *)
(*    spells);                                                             *)
(*  - haversine results are kept in decimetres, so that Math.trunc has a   *)
(*    fraction to cut; edge and path weights are kept in quarters of a     *)
(*    metre, so that base * 1.25 stays a whole number.                     *)
(***************************************************************************)
EXTENDS Integers, Sequences, FiniteSets, TLC

VARIABLES
  phase,             \* how far the computation of the behaviour has come
  \* ---- profiles.js, exercised function by function (SpecProfiles)
  maritimeProfiles,  \* the maritime configuration (cfg)
  effective,         \* result of computeEffectiveStatusNoOverrides
  rules,             \* result of collectClassEdgeRules
  weightCall,        \* the last call of a weight function and what it returned
  \* ---- geo.js, exercised function by function (SpecGeo)
  geoCall,           \* the last call of a geo.js function and what it returned
  \* ---- the SeaRoute instance (Spec)
  network,           \* this.network: the features of the raw network
  options,           \* this.options
  coordinateLookup,  \* this.coordinateLookup: the vertices of the index
  tripled,           \* this.tripled: the features of the triplicated network
  pathfinders,       \* this.pathfinders: profile name -> search structure
  result,            \* the last query and what it returned
  history,           \* the queries made on the instance, with what they returned
  ch                 \* a SeaRouteCH instance: its fields and the files it reads

varsProfiles == <<maritimeProfiles, effective, rules, weightCall>>
varsGeo == <<geoCall>>
varsInstance == <<network, options, coordinateLookup, tripled, pathfinders>>
vars == <<phase, varsProfiles, varsGeo, varsInstance, result, history, ch>>

Null == [t |-> "null", v |-> 0]

(***************************************************************************)
(* JavaScript values an edge's fid can hold.                               *)
(***************************************************************************)
Num(n) == [t |-> "number", v |-> n]      \* a finite number
Str(n) == [t |-> "string", v |-> n]      \* the string that spells n, "12"
Text == [t |-> "text", v |-> 0]          \* a string that spells no number
Undefined == [t |-> "undefined", v |-> 0]
NaN == [t |-> "NaN", v |-> 0]

\* Number(x) for the values above; null is handled before Number is reached.
ToNumber(x) ==
  CASE x.t = "number" -> x
    [] x.t = "string" -> Num(x.v)
    [] x.t = "null" -> Num(0)
    [] OTHER -> NaN

IsFiniteNumber(x) == x.t = "number"

\* A mutation of normalizeFid: numeric strings are not converted.
normalizeFidStrict(fid) ==
  IF fid.t = "number" THEN fid ELSE Null

normalizeFid(fid) ==
  IF fid = Null THEN Null
  ELSE IF fid.t = "number" /\ IsFiniteNumber(fid) THEN fid
  ELSE LET n == ToNumber(fid) IN IF IsFiniteNumber(n) THEN n ELSE Null

(***************************************************************************)
(* Passage rules                                                           *)
(***************************************************************************)
Status == {"allowed", "restricted", "forbidden"}

\* The elements of a sequence.
Range(s) == {s[i] : i \in DOMAIN s}

\* A mutation of clsStatus: the explicit entry is not looked at.
clsStatusIgnoringExplicit(cfg, p, clazz) == cfg.default_policy

\* (p.status && p.status[clazz]) || cfg.default_policy

clsStatus(cfg, p, clazz) ==
  IF clazz \in DOMAIN p.status THEN p.status[clazz] ELSE cfg.default_policy

\* A mutation of computeEffectiveStatusNoOverrides: the set_status actions of the
\* active overrides replace the status of the passage they name.
computeEffectiveStatusApplyingOverrides(cfg, classes) ==
  LET actions ==
        IF "overrides" \in DOMAIN cfg
          THEN UNION {Range(o.actions) : o \in {x \in Range(cfg.overrides) : x.active}}
        ELSE {}
      Acting(p, clazz) ==
        {a \in actions : a.passage_id = p.id /\ clazz \in DOMAIN a.status}
  IN [i \in DOMAIN cfg.passages |->
        [id |-> cfg.passages[i].id,
         status |-> [clazz \in Range(classes) |->
                       IF Acting(cfg.passages[i], clazz) # {}
                         THEN (CHOOSE a \in Acting(cfg.passages[i], clazz) : TRUE).status[clazz]
                       ELSE clsStatus(cfg, cfg.passages[i], clazz)],
         feature_ids |-> cfg.passages[i].feature_ids]]

\* One entry per passage, in the configuration's passage order.
computeEffectiveStatusNoOverrides(cfg, classes) ==
  [i \in DOMAIN cfg.passages |->
     [id |-> cfg.passages[i].id,
      status |-> [clazz \in Range(classes) |-> clsStatus(cfg, cfg.passages[i], clazz)],
      feature_ids |-> cfg.passages[i].feature_ids]]

\* A mutation of addPassage: an id that joins one set of a class leaves the other.
addPassageLastWins(r, e, classes) ==
  IF Len(e.feature_ids) = 0 THEN r
  ELSE [clazz \in Range(classes) |->
          LET ids == Range(e.feature_ids)
              s == e.status[clazz]
          IN IF s = "forbidden"
               THEN [forbidden |-> r[clazz].forbidden \cup ids,
                     restricted |-> r[clazz].restricted \ ids]
             ELSE IF s = "restricted"
               THEN [forbidden |-> r[clazz].forbidden \ ids,
                     restricted |-> r[clazz].restricted \cup ids]
             ELSE r[clazz]]

\* The body of the loop over the passages: what one passage adds to the sets.
addPassage(r, e, classes) ==
  IF Len(e.feature_ids) = 0 THEN r
  ELSE [clazz \in Range(classes) |->
          LET ids == Range(e.feature_ids)
              s == e.status[clazz]
          IN IF s = "forbidden"
               THEN [r[clazz] EXCEPT !.forbidden = @ \cup ids]
             ELSE IF s = "restricted"
               THEN [r[clazz] EXCEPT !.restricted = @ \cup ids]
             ELSE r[clazz]]

RECURSIVE scanPassages(_, _, _, _)
scanPassages(r, eff, i, classes) ==
  IF i > Len(eff) THEN r
  ELSE scanPassages(addPassage(r, eff[i], classes), eff, i + 1, classes)

\* A mutation of collectClassEdgeRules: the first passage is not scanned.
collectClassEdgeRulesFromSecond(eff, classes) ==
  scanPassages([clazz \in Range(classes) |-> [forbidden |-> {}, restricted |-> {}]],
               eff, 2, classes)

collectClassEdgeRules(eff, classes) ==
  scanPassages([clazz \in Range(classes) |-> [forbidden |-> {}, restricted |-> {}]],
               eff, 1, classes)

(***************************************************************************)
(* Geodesic distance                                                       *)
(***************************************************************************)
Abs(x) == IF x < 0 THEN -x ELSE x

\* sin(dLambda / 2)^2 has period 360 degrees and is even: the distance depends
\* on the longitude difference through its fold into [0, 180].
FoldLon(dLon) ==
  LET m == Abs(dLon) % 360 IN IF m > 180 THEN 360 - m ELSE m

\* 2 * R_EARTH * asin(sqrt(s)) of geo.js, evaluated in double precision for the
\* latitudes 0 and 30 and the longitude differences 0, 30, ..., 180, in
\* decimetres (the first decimal of the result in metres is kept).
HaversineDm ==
  [lat \in {<<0, 0>>, <<0, 30>>, <<30, 0>>, <<30, 30>>} |->
     CASE lat = <<0, 0>> ->
            <<0, 33358477, 66716955, 100075433, 133433911, 166792389, 200150867>>
       [] lat = <<0, 30>> ->
            <<33358477, 46045398, 71544031, 100075433, 128606835, 154105469, 166792389>>
       [] lat = <<30, 0>> ->
            <<33358477, 46045398, 71544031, 100075433, 128606835, 154105469, 166792389>>
       [] lat = <<30, 30>> ->
            <<0, 28805133, 57062804, 83977174, 108060070, 126259743, 133433911>>]

\* A mutation of haversine: cos(phi1) is used for both latitudes.
haversineFirstLatitudeTwice(a, b) ==
  HaversineDm[<<a[2], a[2]>>][(FoldLon(b[1] - a[1]) \div 30) + 1]

\* Distance in decimetres between two grid coordinates.
haversine(a, b) ==
  HaversineDm[<<a[2], b[2]>>][(FoldLon(b[1] - a[1]) \div 30) + 1]

\* Math.trunc of a non-negative distance: decimetres to whole metres.
Trunc(dm) == dm \div 10

(***************************************************************************)
(* Weight functions. A weight is a number of quarter metres, or Infinity.  *)
(* restrictedMultiplier is given in quarters: 5 is 1.25, 8 is 2.0.         *)
(***************************************************************************)
Infinity == -1

Quarters(metres) == metres * 4

\* A mutation of makeWeightFn: the penalty is applied to the ids that are not
\* in the restricted set.
makeWeightFnPenaltyInverted(clazz, r, restrictedMultiplier, a, b, edgeData) ==
  LET base == Trunc(haversine(a, b))
      fid == normalizeFid(edgeData.fid)
  IN IF fid # Null /\ fid \in r[clazz].forbidden THEN Infinity
     ELSE IF fid # Null /\ fid \notin r[clazz].restricted
       THEN base * restrictedMultiplier
     ELSE Quarters(base)

\* A mutation of makeWeightFn: a restricted edge gets no penalty.
makeWeightFnNoPenalty(clazz, r, restrictedMultiplier, a, b, edgeData) ==
  LET base == Trunc(haversine(a, b))
      fid == normalizeFid(edgeData.fid)
  IN IF fid # Null /\ fid \in r[clazz].forbidden THEN Infinity
     ELSE Quarters(base)

\* A mutation of makeWeightFn: the restricted set is looked up first.
makeWeightFnRestrictedFirst(clazz, r, restrictedMultiplier, a, b, edgeData) ==
  LET base == Trunc(haversine(a, b))
      fid == normalizeFid(edgeData.fid)
  IN IF fid # Null /\ fid \in r[clazz].restricted THEN base * restrictedMultiplier
     ELSE IF fid # Null /\ fid \in r[clazz].forbidden THEN Infinity
     ELSE Quarters(base)

\* makeWeightFn(clazz, rules, restrictedMultiplier, haversine)(a, b, edgeData)
makeWeightFn(clazz, r, restrictedMultiplier, a, b, edgeData) ==
  LET forbidden == r[clazz].forbidden
      restricted == r[clazz].restricted
      base == Trunc(haversine(a, b))
      fid == normalizeFid(edgeData.fid)
  IN IF fid # Null /\ fid \in forbidden THEN Infinity
     ELSE IF fid # Null /\ fid \in restricted THEN base * restrictedMultiplier
     ELSE Quarters(base)

(***************************************************************************)
(* SpecProfiles: the functions of profiles.js applied to every              *)
(* configuration of a bounded family.                                      *)
(***************************************************************************)
MaxPassages == 2

ClassLists == {<<"panamax", "capesize">>}

\* feature_ids lists of a passage; two passages can share an id.
FeatureIdLists == {<<>>, <<Num(1)>>, <<Num(1), Num(2)>>}

\* The status object of a passage: an entry for some of the classes.
StatusObjects ==
  UNION {[D -> Status] : D \in {{}, {"panamax"}}}
    \cup {[capesize |-> "forbidden"]}
    \cup {[panamax |-> s, capesize |-> "forbidden"] : s \in Status}

PassageIds == <<"suez", "panama", "malacca">>

Passages(n) ==
  {[i \in 1..n |-> [id |-> PassageIds[i], status |-> st[i], feature_ids |-> ids[i]]] :
     st \in [1..n -> StatusObjects], ids \in [1..n -> FeatureIdLists]}

Configs ==
  {[default_policy |-> d, classes |-> cl, passages |-> ps] :
     d \in Status, cl \in ClassLists,
     ps \in UNION {Passages(n) : n \in 0..MaxPassages}}

\* Object.keys(maritimeConfig.classes)
Classes(cfg) == cfg.classes

EdgeFids == {Num(1), Num(2), Num(3), Str(2), Text, Null, Undefined, NaN}

WeightPoints ==
  {<<<<0, 0>>, <<60, 0>>>>, <<<<30, 30>>, <<0, 0>>>>, <<<<150, 30>>, <<-150, 0>>>>}

Multipliers == {5, 8}

\* No SeaRouteCH was constructed.
NoSeaRouteCH ==
  [state |-> "none", network |-> "null", triplicated |-> "null", graph |-> "null",
   finder |-> "null", lookup |-> "null",
   files |-> [network |-> FALSE, pbf |-> FALSE, route |-> FALSE]]

NoWeightCall ==
  [done |-> FALSE, clazz |-> "", mult |-> 0, a |-> <<0, 0>>, b |-> <<0, 0>>,
   fid |-> Null, weight |-> 0]

NoGeoCall == [fn |-> "none"]

NoFeature ==
  [geometry |-> [type |-> "none", coordinates |-> <<>>],
   properties |-> [profile |-> "", weight |-> 0,
                   distance |-> [inf |-> FALSE, km |-> 0, q |-> 0],
                   distanceNM |-> 0]]

NoResult ==
  [op |-> "none", a |-> <<0, 0>>, b |-> <<0, 0>>, profile |-> "", path |-> FALSE,
   input |-> [t |-> "undefined", v |-> <<>>, geometry |-> "undefined",
              coordinates |-> [t |-> "undefined", v |-> <<>>]],
   outcome |-> "none", error |-> "", available |-> {}, snapped |-> <<>>,
   enginePath |-> <<>>, feature |-> NoFeature]

\* The fields of an instance that was not constructed.
NoInstance ==
  /\ network = <<>>
  /\ options = [restrictedMultiplier |-> 5]
  /\ coordinateLookup = [vertices |-> <<>>, index |-> FALSE]
  /\ tripled = <<>>
  /\ pathfinders = <<>>
  /\ result = NoResult
  /\ history = <<>>
  /\ ch = NoSeaRouteCH

InitProfiles ==
  /\ phase = "config"
  /\ maritimeProfiles \in Configs
  /\ effective = <<>>
  /\ rules = <<>>
  /\ weightCall = NoWeightCall
  /\ geoCall = NoGeoCall
  /\ NoInstance

ComputeEffective ==
  /\ phase = "config"
  /\ effective' = computeEffectiveStatusNoOverrides(maritimeProfiles,
                                                    Classes(maritimeProfiles))
  /\ phase' = "effective"
  /\ UNCHANGED <<ch, history, maritimeProfiles, rules, weightCall, varsGeo, varsInstance, result>>

CollectRules ==
  /\ phase = "effective"
  /\ rules' = collectClassEdgeRules(effective, Classes(maritimeProfiles))
  /\ phase' = "rules"
  /\ UNCHANGED <<ch, history, maritimeProfiles, effective, weightCall, varsGeo, varsInstance, result>>

\* The weight functions are pure: one call in a behaviour reaches every pair of a
\* configuration and a call.
CallWeightFn ==
  /\ phase = "rules"
  /\ \E clazz \in Range(Classes(maritimeProfiles)), m \in Multipliers,
        p \in WeightPoints, fid \in EdgeFids :
       weightCall' =
         [done |-> TRUE, clazz |-> clazz, mult |-> m, a |-> p[1], b |-> p[2],
          fid |-> fid,
          weight |-> makeWeightFn(clazz, rules, m, p[1], p[2], [fid |-> fid])]
  /\ phase' = "called"
  /\ UNCHANGED <<ch, history, maritimeProfiles, effective, rules, varsGeo, varsInstance, result>>

NextProfiles == ComputeEffective \/ CollectRules \/ CallWeightFn

SpecProfiles == InitProfiles /\ [][NextProfiles]_vars

(***************************************************************************)
(* Claims about profiles.js, checked under SpecProfiles                    *)
(***************************************************************************)
CalledClassRules == rules[weightCall.clazz]

CalledBase == Trunc(haversine(weightCall.a, weightCall.b))

\* C1: for every class and every feature id in the forbidden set built for it,
\* the weight function of the class returns +Infinity for an edge with that fid,
\* whatever the two end points are.
C1_ForbiddenIsInfinite ==
  (phase = "called" /\ weightCall.fid \in CalledClassRules.forbidden)
    => weightCall.weight = Infinity

C1_Witness ==
  /\ phase = "called"
  /\ weightCall.fid \in CalledClassRules.forbidden
  /\ weightCall.fid \notin CalledClassRules.restricted
  /\ weightCall.weight = Infinity

CalledFidIsNoNumber == weightCall.fid.t \in {"undefined", "null", "NaN", "text"}

\* The number the fid of the call stands for is in neither set of the class.
CalledFidInNoSet ==
  /\ weightCall.fid.t \in {"number", "string"}
  /\ Num(weightCall.fid.v) \notin
       CalledClassRules.forbidden \cup CalledClassRules.restricted

\* C4: for an edge whose fid is absent or does not normalise to a finite number,
\* and for an edge whose id is in neither set of the class, the weight is exactly
\* truncate(distance(a, b)), whatever the rule sets hold.
C4_PlainWeight ==
  (phase = "called" /\ (CalledFidIsNoNumber \/ CalledFidInNoSet))
    => weightCall.weight = Quarters(CalledBase)

C4_Witness ==
  /\ phase = "called"
  /\ CalledFidIsNoNumber
  /\ CalledClassRules.forbidden # {}
  /\ CalledClassRules.restricted # {}
  /\ weightCall.weight = Quarters(CalledBase)
  /\ CalledBase > 0

\* C5: computeEffectiveStatusNoOverrides gives, for every passage and every class
\* of the class list, the explicit status of the passage for the class when there
\* is one and default_policy when there is none; feature_ids are carried over
\* unchanged.
C5_EffectiveStatus ==
  phase # "config" =>
    /\ DOMAIN effective = DOMAIN maritimeProfiles.passages
    /\ \A i \in DOMAIN maritimeProfiles.passages :
         LET p == maritimeProfiles.passages[i] IN
           /\ effective[i].feature_ids = p.feature_ids
           /\ DOMAIN effective[i].status = Range(maritimeProfiles.classes)
           /\ \A c \in Range(maritimeProfiles.classes) :
                effective[i].status[c] =
                  IF c \in DOMAIN p.status THEN p.status[c]
                  ELSE maritimeProfiles.default_policy

C5_Witness ==
  /\ phase = "effective"
  /\ \E i \in DOMAIN maritimeProfiles.passages :
       LET p == maritimeProfiles.passages[i] IN
         /\ "panamax" \in DOMAIN p.status
         /\ p.status["panamax"] # maritimeProfiles.default_policy
         /\ effective[i].status["panamax"] = p.status["panamax"]
         /\ "capesize" \notin DOMAIN p.status
         /\ effective[i].status["capesize"] = maritimeProfiles.default_policy
         /\ Len(p.feature_ids) = 2
(***************************************************************************)
(* Antimeridian geometry (geo.js)                                          *)
(***************************************************************************)
\* The % of JavaScript: the remainder has the sign of the dividend.
JsRem(x, n) == IF x >= 0 THEN x % n ELSE -((-x) % n)

shiftLon(coord, dx) == <<coord[1] + dx, coord[2]>>

\* How deep the coordinates array of a geometry is nested: mapCoords tells a
\* coordinate from an array of coordinates by Array.isArray(c[0]).
CoordDepth(type) ==
  CASE type = "Point" -> 1
    [] type \in {"LineString", "MultiPoint"} -> 2
    [] type \in {"Polygon", "MultiLineString"} -> 3
    [] type = "MultiPolygon" -> 4

\* shiftLon(c, dx) for a number c: c[0] and c[1] are undefined, and
\* undefined + dx is NaN.
shiftLonOfNumber(c, dx) == <<NaN, Undefined>>

\* coords.map(c => Array.isArray(c[0]) ? mapCoords(c) : shiftLon(c, dx)); at
\* depth 1 the elements of coords are the two numbers of a Point.
RECURSIVE mapCoords(_, _, _)
mapCoords(coords, depth, dx) ==
  [i \in DOMAIN coords |->
     IF depth > 2 THEN mapCoords(coords[i], depth - 1, dx)
     ELSE IF depth = 2 THEN shiftLon(coords[i], dx)
     ELSE shiftLonOfNumber(coords[i], dx)]

\* How deep the array is nested that mapCoords returns for coordinates of the
\* given depth: map returns an array of what mapCoords or shiftLon returns.
RECURSIVE mapCoordsDepth(_)
mapCoordsDepth(depth) ==
  1 + (IF depth > 2 THEN mapCoordsDepth(depth - 1) ELSE 1)

shiftGeometry(geom, dx) ==
  [type |-> geom.type,
   coordinates |-> mapCoords(geom.coordinates, CoordDepth(geom.type), dx)]

shifts == <<-360, 0, 360>>

\* A mutation of triplicateGeoJSON: the copy is tagged with the shift of the
\* copy before it.
triplicateGeoJSONStaleTag(fc) ==
  [k \in 1..(Len(fc) * 3) |->
     LET i == ((k - 1) \div 3) + 1
         j == ((k - 1) % 3) + 1
     IN [properties |-> [fid |-> fc[i].properties.fid,
                         wrapShift |-> shifts[IF j = 1 THEN 1 ELSE j - 1]],
         geometry |-> shiftGeometry(fc[i].geometry, shifts[j])]]

\* A mutation of triplicateGeoJSON: only the unshifted copy keeps the fid.
triplicateGeoJSONShiftedLoseFid(fc) ==
  [k \in 1..(Len(fc) * 3) |->
     LET i == ((k - 1) \div 3) + 1
         j == ((k - 1) % 3) + 1
         dx == shifts[j]
     IN [properties |-> [fid |-> IF dx = 0 THEN fc[i].properties.fid ELSE Undefined,
                         wrapShift |-> dx],
         geometry |-> shiftGeometry(fc[i].geometry, dx)]]

\* fc is the features array of the collection; the copy of feature i under
\* shifts[j] is written at index 3 * (i - 1) + j.
triplicateGeoJSON(fc) ==
  [k \in 1..(Len(fc) * 3) |->
     LET i == ((k - 1) \div 3) + 1
         j == ((k - 1) % 3) + 1
         dx == shifts[j]
     IN [properties |-> [fid |-> fc[i].properties.fid, wrapShift |-> dx],
         geometry |-> shiftGeometry(fc[i].geometry, dx)]]

unwrapPath(path) ==
  [i \in DOMAIN path |-> <<JsRem(path[i][1] + 180, 360) - 180, path[i][2]>>]

\* A mutation of normalizePair: a pair exactly 180 degrees apart is shifted too.
normalizePairInclusive(a, b) ==
  IF Abs(a[1] - b[1]) >= 180
    THEN IF a[1] < b[1] THEN <<<<a[1] + 360, a[2]>>, <<b[1], b[2]>>>>
         ELSE <<<<a[1], a[2]>>, <<b[1] + 360, b[2]>>>>
  ELSE <<<<a[1], a[2]>>, <<b[1], b[2]>>>>

\* A mutation of normalizePair: the first point is the one that is shifted.
normalizePairShiftsFirst(a, b) ==
  IF Abs(a[1] - b[1]) > 180
    THEN <<<<a[1] + 360, a[2]>>, <<b[1], b[2]>>>>
  ELSE <<<<a[1], a[2]>>, <<b[1], b[2]>>>>

normalizePair(a, b) ==
  LET lonA == a[1]
      lonB == b[1]
      latA == a[2]
      latB == b[2]
  IN IF Abs(lonA - lonB) > 180
       THEN IF lonA < lonB THEN <<<<lonA + 360, latA>>, <<lonB, latB>>>>
            ELSE <<<<lonA, latA>>, <<lonB + 360, latB>>>>
     ELSE <<<<lonA, latA>>, <<lonB, latB>>>>

(***************************************************************************)
(* SpecGeo: the functions of geo.js applied to bounded families of inputs. *)
(***************************************************************************)
MaxPathLen == 2
MaxFeatures == 2

\* Longitudes of the three world copies, -540 to 540, with the values next to
\* the seams.
PathLons == {-540, -539, -361, -360, -190, -181, -180, -179, -1, 0, 1,
             179, 180, 181, 359, 360, 539, 540}

Lats == {0, 30}

Paths ==
  UNION {[1..n -> PathLons \X Lats] : n \in 1..MaxPathLen}

\* Longitudes of query points.
PairLons == {-180, -179, -120, -60, -1, 0, 1, 60, 120, 179, 180}

GeoFeatures ==
  {[properties |-> [fid |-> f], geometry |-> g] :
     f \in {Num(1), Str(2)},
     g \in {[type |-> "LineString", coordinates |-> <<<<170, 0>>, <<180, 0>>>>],
            [type |-> "LineString",
             coordinates |-> <<<<-180, 30>>, <<-150, 30>>, <<-120, 0>>>>],
            [type |-> "Polygon",
             coordinates |-> <<<<<<0, 0>>, <<30, 0>>, <<30, 30>>, <<0, 0>>>>>>]}}

FeatureCollections ==
  UNION {[1..n -> GeoFeatures] : n \in 0..MaxFeatures}

PointFeatures ==
  {[properties |-> [fid |-> f], geometry |-> [type |-> "Point", coordinates |-> c]] :
     f \in {Num(1), Str(2)}, c \in {<<170, 0>>, <<-180, 30>>}}

\* Collections of Point features.
PointCollections ==
  UNION {[1..n -> PointFeatures] : n \in 1..MaxFeatures}

InitGeo ==
  /\ phase = "geo"
  /\ maritimeProfiles = <<>>
  /\ effective = <<>>
  /\ rules = <<>>
  /\ weightCall = NoWeightCall
  /\ geoCall = NoGeoCall
  /\ NoInstance

CallUnwrapPath ==
  /\ phase = "geo"
  /\ \E path \in Paths :
       geoCall' = [fn |-> "unwrapPath", in |-> path, out |-> unwrapPath(path)]
  /\ phase' = "called"
  /\ UNCHANGED <<ch, history, varsProfiles, varsInstance, result>>

CallNormalizePair ==
  /\ phase = "geo"
  /\ \E a \in PairLons \X Lats, b \in PairLons \X Lats :
       geoCall' = [fn |-> "normalizePair", in |-> <<a, b>>, out |-> normalizePair(a, b)]
  /\ phase' = "called"
  /\ UNCHANGED <<ch, history, varsProfiles, varsInstance, result>>

CallTriplicate ==
  /\ phase = "geo"
  /\ \/ \E fc \in FeatureCollections :
          geoCall' = [fn |-> "triplicateGeoJSON", in |-> fc, out |-> triplicateGeoJSON(fc)]
     \/ \E fc \in PointCollections :
          geoCall' = [fn |-> "triplicateGeoJSON", in |-> fc, out |-> triplicateGeoJSON(fc)]
  /\ phase' = "called"
  /\ UNCHANGED <<ch, history, varsProfiles, varsInstance, result>>

NextGeo == CallUnwrapPath \/ CallNormalizePair \/ CallTriplicate

SpecGeo == InitGeo /\ [][NextGeo]_vars

(***************************************************************************)
(* Claims about geo.js, checked under SpecGeo                              *)
(***************************************************************************)
\* C6: in every result of unwrapPath every longitude lies in (-180, 180] and
\* every latitude is the input latitude, for every input longitude from -540 to
\* 540, 180 and the values below -180 included.
C6_UnwrapRange ==
  geoCall.fn = "unwrapPath" =>
    /\ Len(geoCall.out) = Len(geoCall.in)
    /\ \A i \in DOMAIN geoCall.out :
         /\ geoCall.out[i][1] > -180
         /\ geoCall.out[i][1] <= 180
         /\ geoCall.out[i][2] = geoCall.in[i][2]

\* C8: normalizePair(a, b) adds 360 to the longitude of exactly the point with
\* the smaller longitude when the longitudes differ by more than 180, returns
\* both points unchanged when they differ by at most 180, never changes a
\* latitude and keeps the order of the arguments.
C8_NormalizePair ==
  geoCall.fn = "normalizePair" =>
    LET a == geoCall.in[1]
        b == geoCall.in[2]
        A == geoCall.out[1]
        B == geoCall.out[2]
    IN /\ Len(geoCall.out) = 2
       /\ A[2] = a[2] /\ B[2] = b[2]
       /\ (a[1] - b[1] > 180) => (A[1] = a[1] /\ B[1] = b[1] + 360)
       /\ (b[1] - a[1] > 180) => (A[1] = a[1] + 360 /\ B[1] = b[1])
       /\ (a[1] - b[1] <= 180 /\ b[1] - a[1] <= 180) => (A[1] = a[1] /\ B[1] = b[1])

C8_Witness ==
  /\ geoCall.fn = "normalizePair"
  /\ geoCall.in = <<<<120, 30>>, <<-120, 0>>>>
  /\ geoCall.out = <<<<120, 30>>, <<240, 0>>>>

\* C9: triplicateGeoJSON returns 3 * |features| features; every original
\* feature appears once for each of the shifts -360, 0 and 360, and each copy is
\* tagged with the shift that was applied to its geometry.
C9_Triplicate ==
  geoCall.fn = "triplicateGeoJSON" =>
    LET fc == geoCall.in
        out == geoCall.out
    IN /\ Len(out) = 3 * Len(fc)
       /\ \A i \in DOMAIN fc : \A dx \in {-360, 0, 360} :
            /\ Cardinality({k \in (3 * i - 2)..(3 * i) :
                              out[k].properties.wrapShift = dx}) = 1
            /\ \A k \in (3 * i - 2)..(3 * i) :
                 out[k].properties.wrapShift = dx =>
                   /\ out[k].properties.fid = fc[i].properties.fid
                   /\ out[k].geometry.type = fc[i].geometry.type
                   /\ fc[i].geometry.type = "LineString" =>
                        /\ Len(out[k].geometry.coordinates) =
                             Len(fc[i].geometry.coordinates)
                        /\ \A n \in DOMAIN fc[i].geometry.coordinates :
                             out[k].geometry.coordinates[n] =
                               <<fc[i].geometry.coordinates[n][1] + dx,
                                 fc[i].geometry.coordinates[n][2]>>

C9_Witness ==
  /\ geoCall.fn = "triplicateGeoJSON"
  /\ Len(geoCall.in) = 2
  /\ Len(geoCall.out) = 6
  /\ geoCall.in[1] # geoCall.in[2]
  /\ geoCall.in[2].geometry.type = "LineString"
  /\ geoCall.out[6].properties.wrapShift = 360
  /\ geoCall.out[6].geometry.coordinates[1] = <<530, 0>>

\* The coordinates out are the coordinates in with every longitude shifted by
\* dx and every latitude kept; depth 1 is a single coordinate.
RECURSIVE IsShifted(_, _, _, _)
IsShifted(out, in, depth, dx) ==
  IF depth = 1 THEN out = <<in[1] + dx, in[2]>>
  ELSE /\ Len(out) = Len(in)
       /\ \A n \in DOMAIN in : IsShifted(out[n], in[n], depth - 1, dx)

\* C26: in every copy made by triplicateGeoJSON the coordinates are nested as
\* in the source geometry and every coordinate has its longitude shifted by the
\* offset of the copy and its latitude unchanged, for a Point, a LineString and
\* a Polygon alike.
C26_ShiftAtEveryDepth ==
  geoCall.fn = "triplicateGeoJSON" =>
    \A k \in DOMAIN geoCall.out :
      LET g == geoCall.in[((k - 1) \div 3) + 1].geometry
          copy == geoCall.out[k]
      IN /\ copy.geometry.type = g.type
         /\ mapCoordsDepth(CoordDepth(g.type)) = CoordDepth(g.type)
         /\ IsShifted(copy.geometry.coordinates, g.coordinates, CoordDepth(g.type),
                      copy.properties.wrapShift)

(***************************************************************************)
(* CoordinateLookup (src/core/CoordinateLookup.js)                         *)
(***************************************************************************)
\* coordAll of @turf/meta: every coordinate of every feature, in order.
RECURSIVE coordAll(_)
coordAll(fc) ==
  IF Len(fc) = 0 THEN <<>>
  ELSE fc[1].geometry.coordinates \o coordAll(Tail(fc))

buildIndex(net) ==
  LET v == coordAll(net) IN [vertices |-> v, index |-> Len(v) > 0]

SqDist(p, q) == (p[1] - q[1]) * (p[1] - q[1]) + (p[2] - q[2]) * (p[2] - q[2])

\* A mutation of neighbors: the first vertex of the index, wherever it is.
neighborsFirstVertex(lookup, p) == 1

\* index.neighbors(lon, lat, 1): the index of a vertex no other vertex is closer
\* than; which one of several equally close vertices is a fixed choice.
neighbors(lookup, p) ==
  CHOOSE i \in DOMAIN lookup.vertices :
    \A k \in DOMAIN lookup.vertices :
      SqDist(lookup.vertices[i], p) <= SqDist(lookup.vertices[k], p)

\* JavaScript values that can be handed to snapToNearestVertex: t is the kind
\* of the value, v the elements of an array, geometry the kind of the property
\* geometry of an object and coordinates what geometry.coordinates holds.
JsValue(t, v, geometry, coordinates) ==
  [t |-> t, v |-> v, geometry |-> geometry, coordinates |-> coordinates]

NoCoordinates == [t |-> "undefined", v |-> <<>>]
JsNull == JsValue("null", <<>>, "undefined", NoCoordinates)
JsUndefined == JsValue("undefined", <<>>, "undefined", NoCoordinates)
JsArray(v) == JsValue("array", v, "undefined", NoCoordinates)
\* {}
JsEmptyObject == JsValue("object", <<>>, "undefined", NoCoordinates)
\* {geometry: null}
JsNullGeometry == JsValue("object", <<>>, "null", NoCoordinates)
\* {geometry: {coordinates: null}}
JsNullCoordinates == JsValue("object", <<>>, "object", [t |-> "null", v |-> <<>>])
\* point(c) of @turf/helpers: {type: 'Feature', geometry: {type: 'Point', coordinates: c}}
point(c) == JsValue("object", <<>>, "object", [t |-> "array", v |-> c])

\* _extractCoordinates(input): <<lon, lat>>, or null (the empty tuple).
NoPair == <<>>

extractCoordinates(input) ==
  IF input.t \in {"null", "undefined"} THEN NoPair
  ELSE IF input.t = "array" /\ Len(input.v) >= 2 THEN <<input.v[1], input.v[2]>>
  ELSE IF /\ input.geometry = "object"
          /\ input.coordinates.t = "array"
          /\ Len(input.coordinates.v) >= 2
    THEN <<input.coordinates.v[1], input.coordinates.v[2]>>
  ELSE NoPair

NoSnap == [outcome |-> "null", error |-> "", point |-> <<>>]

\* A mutation of snapToNearestVertex: an empty index gives null.
snapToNearestVertexNullOnEmpty(lookup, pointToSnap) ==
  LET coordinates == extractCoordinates(pointToSnap) IN
    IF coordinates = NoPair THEN NoSnap
    ELSE IF Len(lookup.vertices) = 0 THEN NoSnap
    ELSE [NoSnap EXCEPT !.outcome = "ok",
                        !.point = lookup.vertices[neighbors(lookup, coordinates)]]

\* A mutation of snapToNearestVertex: the index is looked at before the input.
snapToNearestVertexIndexFirst(lookup, pointToSnap) ==
  LET coordinates == extractCoordinates(pointToSnap) IN
    IF Len(lookup.vertices) = 0
      THEN [NoSnap EXCEPT !.outcome = "error",
                          !.error = "No spatial index available (empty network)."]
    ELSE IF coordinates = NoPair THEN NoSnap
    ELSE [NoSnap EXCEPT !.outcome = "ok",
                        !.point = lookup.vertices[neighbors(lookup, coordinates)]]

\* snapToNearestVertex(pointToSnap): null, the error thrown, or the coordinates
\* of the Point returned.
snapToNearestVertex(lookup, pointToSnap) ==
  LET coordinates == extractCoordinates(pointToSnap) IN
    IF coordinates = NoPair THEN NoSnap
    ELSE IF Len(lookup.vertices) = 0
      THEN [NoSnap EXCEPT !.outcome = "error",
                          !.error = "No spatial index available (empty network)."]
    ELSE [NoSnap EXCEPT !.outcome = "ok",
                        !.point = lookup.vertices[neighbors(lookup, coordinates)]]

(***************************************************************************)
(* The search structure (geojson-path-finder, used through                 *)
(* new PathFinder(graph, {weight}) and findPath(a, b)): one edge in each   *)
(* direction for every pair of consecutive coordinates of a feature whose  *)
(* weight is truthy, and a least-weight search in which weights are added  *)
(* and compared as JavaScript numbers, Infinity included.                  *)
(***************************************************************************)
Segments(graph) ==
  UNION {{[a |-> graph[k].geometry.coordinates[i],
           b |-> graph[k].geometry.coordinates[i + 1],
           props |-> graph[k].properties] :
            i \in 1..(Len(graph[k].geometry.coordinates) - 1)} :
         k \in DOMAIN graph}

\* weight: (a, b) => Math.trunc(haversine(a, b))
defaultWeight(a, b) == Quarters(Trunc(haversine(a, b)))

\* new PathFinder(graph, {weight}): weight is the default weight or the weight
\* function of a class.
PathFinder(graph, clazz, r, restrictedMultiplier) ==
  LET weight(sg) ==
        IF clazz = "default" /\ r = <<>> THEN defaultWeight(sg.a, sg.b)
        ELSE makeWeightFn(clazz, r, restrictedMultiplier, sg.a, sg.b, sg.props)
  IN [edges |->
        UNION {IF weight(sg) = 0 THEN {}
               ELSE {[a |-> sg.a, b |-> sg.b, w |-> weight(sg), fid |-> sg.props.fid],
                     [a |-> sg.b, b |-> sg.a, w |-> weight(sg), fid |-> sg.props.fid]} :
               sg \in Segments(graph)}]

\* The constructor of the search structure throws ('Compacted graph contains no
\* forks') when the graph has no vertex.
NoForks(pf) == pf.edges = {}

WPlus(x, y) == IF x = Infinity \/ y = Infinity THEN Infinity ELSE x + y

\* The least of a non-empty set of weights.
WMin(S) ==
  IF S = {Infinity} THEN Infinity
  ELSE CHOOSE x \in S \ {Infinity} : \A y \in S \ {Infinity} : x <= y

\* The least weight of a walk to the finish, for every vertex that has one.
RECURSIVE costsTo(_, _)
costsTo(pf, D) ==
  LET V == DOMAIN D \cup {e.a : e \in {x \in pf.edges : x.b \in DOMAIN D}}
      next == [v \in V |->
                 WMin((IF v \in DOMAIN D THEN {D[v]} ELSE {})
                      \cup {WPlus(e.w, D[e.b]) :
                              e \in {x \in pf.edges : x.a = v /\ x.b \in DOMAIN D}})]
  IN IF next = D THEN D ELSE costsTo(pf, next)

\* The least-weight paths from u to the finish, u first.
RECURSIVE pathsVia(_, _, _, _, _)
pathsVia(pf, D, u, finish, seen) ==
  IF u = finish THEN {<<u>>}
  ELSE UNION {{<<u>> \o q : q \in pathsVia(pf, D, e.b, finish, seen \cup {e.b})} :
              e \in {x \in pf.edges : /\ x.a = u
                                      /\ x.b \in DOMAIN D
                                      /\ x.b \notin seen
                                      /\ WPlus(x.w, D[x.b]) = D[u]}}

\* A mutation of findPath: the search structure answers its first search only.
findPathUsedUp(pf, a, b) ==
  LET V == {e.a : e \in pf.edges} IN
    IF history # <<>> \/ a \notin V \/ b \notin V THEN {}
    ELSE LET D == costsTo(pf, [v \in {b} |-> 0]) IN
           IF a \notin DOMAIN D THEN {}
           ELSE {[path |-> CHOOSE q \in pathsVia(pf, D, a, b, {a}) : TRUE,
                  weight |-> D[a]]}

\* findPath(a, b): the result of the search, none for null. The search is a
\* function of the graph and the two points: of several paths of the least
\* weight it returns one, always the same.
findPath(pf, a, b) ==
  LET V == {e.a : e \in pf.edges} IN
    IF a \notin V \/ b \notin V THEN {}
    ELSE LET D == costsTo(pf, [v \in {b} |-> 0]) IN
           IF a \notin DOMAIN D THEN {}
           ELSE {[path |-> CHOOSE q \in pathsVia(pf, D, a, b, {a}) : TRUE,
                  weight |-> D[a]]}

(***************************************************************************)
(* SeaRoute (src/SeaRoutes.js)                                             *)
(***************************************************************************)
\* res.weight / 1000: whole kilometres and the rest in quarter metres.
distance(weight) ==
  IF weight = Infinity THEN [inf |-> TRUE, km |-> 0, q |-> 0]
  ELSE [inf |-> FALSE, km |-> weight \div 4000, q |-> weight % 4000]

\* A mutation of distanceNM: the hundredths are cut, not rounded.
distanceNMTruncated(weight) ==
  IF weight = Infinity THEN Infinity
  ELSE LET u == weight \div 4000
           r == weight % 4000
       IN 53 * u + ((u * 9957 + 125 * r + ((r * 39957) \div 4000)) \div 10000)

\* Math.round(((res.weight / 1000) * 0.539957) * 100) / 100, in hundredths of a
\* nautical mile: round(weight * 539957 / 40000000) for a weight in quarter
\* metres, computed in parts that stay below 2^31.
distanceNM(weight) ==
  IF weight = Infinity THEN Infinity
  ELSE LET u == weight \div 4000
           r == weight % 4000
       IN 53 * u + ((u * 9957 + 5000 + 125 * r + ((r * 39957) \div 4000)) \div 10000)

\* formatPathGeometry: the unwrapped line, or null for fewer than two points.
formatPathGeometry(pathCoordinates) ==
  LET unwrapped == unwrapPath(pathCoordinates) IN
    IF Len(unwrapped) < 2 THEN [type |-> "null", coordinates |-> <<>>]
    ELSE [type |-> "LineString", coordinates |-> unwrapped]

\* this.pathfinders.has(profileName)
HasProfile(profileName) == profileName \in DOMAIN pathfinders

\* A mutation of getPathFinder: the error names no profile.
getPathFinderNamesNothing(profileName) ==
  IF ~HasProfile(profileName)
    THEN [outcome |-> "error", error |-> "Profile not found", available |-> {}]
  ELSE [outcome |-> "ok", error |-> "", available |-> {}]

\* getPathFinder(profileName): the search structure of the profile, or the error
\* with the names of the profiles of the instance.
getPathFinder(profileName) ==
  IF ~HasProfile(profileName)
    THEN [outcome |-> "error", error |-> "Profile not found",
          available |-> DOMAIN pathfinders]
  ELSE [outcome |-> "ok", error |-> "", available |-> {}]

\* A mutation of buildMaritimePathfinders: an empty class list is accepted.
buildMaritimePathfindersNoClassCheck(maritimeConfig, baseGeoJSON, restrictedMultiplier) ==
  LET classes == Classes(maritimeConfig)
      eff == computeEffectiveStatusNoOverrides(maritimeConfig, classes)
      r == collectClassEdgeRules(eff, classes)
      pathFinders == [clazz \in Range(classes) |->
                        PathFinder(baseGeoJSON, clazz, r, restrictedMultiplier)]
  IN [outcome |-> "ok", error |-> "", pathFinders |-> pathFinders,
      rules |-> r, effectiveStatus |-> eff]

\* buildMaritimePathfinders(maritimeConfig, baseGeoJSON, helpers, options) with
\* triplicate: false: one search structure per class, or the error thrown.
buildMaritimePathfinders(maritimeConfig, baseGeoJSON, restrictedMultiplier) ==
  LET classes == Classes(maritimeConfig)
      eff == computeEffectiveStatusNoOverrides(maritimeConfig, classes)
      r == collectClassEdgeRules(eff, classes)
      pathFinders == [clazz \in Range(classes) |->
                        PathFinder(baseGeoJSON, clazz, r, restrictedMultiplier)]
      failed == [outcome |-> "error", error |-> "", pathFinders |-> <<>>,
                 rules |-> <<>>, effectiveStatus |-> <<>>]
  IN IF Len(classes) = 0
       THEN [failed EXCEPT !.error = "maritimeConfig.classes is empty"]
     ELSE IF \E clazz \in Range(classes) : NoForks(pathFinders[clazz])
       THEN [failed EXCEPT !.error = "Compacted graph contains no forks"]
     ELSE [outcome |-> "ok", error |-> "", pathFinders |-> pathFinders,
           rules |-> r, effectiveStatus |-> eff]

\* getShortestPath(point(start), point(end), {profile, path}): the results the
\* call can have.
getShortestPath(op, a, b, start, end, profile, path) ==
  LET pair == normalizePair(start, end)
      A == pair[1]
      B == pair[2]
      base == [NoResult EXCEPT !.op = op, !.a = a, !.b = b, !.profile = profile,
                               !.path = path, !.snapped = <<start, end>>]
      pathfinder == getPathFinder(profile)
  IN IF pathfinder.outcome = "error"
       THEN {[base EXCEPT !.outcome = "error", !.error = pathfinder.error,
                          !.available = pathfinder.available]}
     ELSE LET found == findPath(pathfinders[profile], A, B) IN
       IF found = {} THEN {[base EXCEPT !.outcome = "null"]}
       ELSE {[base EXCEPT
                !.outcome = "ok",
                !.enginePath = res.path,
                !.feature =
                  [geometry |->
                     IF path THEN formatPathGeometry(res.path)
                     ELSE [type |-> "MultiPoint", coordinates |-> <<A, B>>],
                   properties |->
                     [profile |-> profile, weight |-> res.weight,
                      distance |-> distance(res.weight),
                      distanceNM |-> distanceNM(res.weight)]]] : res \in found}

\* getShortestRoute(startPoint, endPoint, {profile, path})
getShortestRoute(a, b, profile, path) ==
  LET start == point(a)
      end == point(b)
      startPointSnapped == snapToNearestVertex(coordinateLookup, start)
      endPointSnapped == snapToNearestVertex(coordinateLookup, end)
      failed == [NoResult EXCEPT !.op = "getShortestRoute", !.a = a, !.b = b,
                                 !.profile = profile, !.path = path,
                                 !.outcome = "error"]
  IN IF startPointSnapped.outcome = "error"
       THEN {[failed EXCEPT !.error = startPointSnapped.error]}
     ELSE IF endPointSnapped.outcome = "error"
       THEN {[failed EXCEPT !.error = endPointSnapped.error]}
     ELSE IF startPointSnapped.outcome = "null" \/ endPointSnapped.outcome = "null"
       THEN {[failed EXCEPT !.error = "Unable to snap points to network"]}
     ELSE getShortestPath("getShortestRoute", a, b, startPointSnapped.point,
                          endPointSnapped.point, profile, path)

(***************************************************************************)
(* Spec: an instance is constructed over a network and a configuration,    *)
(* and then serves queries.                                                *)
(***************************************************************************)
LineString(fid, coords) ==
  [properties |-> [fid |-> fid],
   geometry |-> [type |-> "LineString", coordinates |-> coords]]

\* A ring of lanes along the equator that closes at the antimeridian (a vertex
\* given as 180 by one lane and as -180 by the next), with a canal from 0 to 60
\* (fid 3) that a longer lane through <<30, 30>> goes around (fid 6) and a strait
\* from 60 to 120 (fid 4) that nothing goes around.
RingNetwork ==
  <<LineString(Num(1), <<<<-180, 0>>, <<-120, 0>>>>),
    LineString(Num(2), <<<<-120, 0>>, <<0, 0>>>>),
    LineString(Num(3), <<<<0, 0>>, <<60, 0>>>>),
    LineString(Str(4), <<<<60, 0>>, <<120, 0>>>>),
    LineString(Num(5), <<<<120, 0>>, <<180, 0>>>>),
    LineString(Num(6), <<<<0, 0>>, <<30, 30>>, <<60, 0>>>>)>>

\* A network without features.
EmptyNetwork == <<>>

Networks == {RingNetwork, EmptyNetwork}

\* The canal and the strait as passages; panamax gets every status for the
\* canal, and the strait is forbidden or left to default_policy. One
\* configuration has no class, and one declares a class named 'default'.
SeaConfigs ==
  {[default_policy |-> "allowed",
    classes |-> <<"panamax">>,
    passages |-> <<[id |-> "canal", status |-> [panamax |-> c],
                    feature_ids |-> <<Num(3)>>],
                   [id |-> "strait", status |-> st,
                    feature_ids |-> <<Num(4)>>]>>] :
     c \in Status, st \in {<<>>, [panamax |-> "forbidden"]}}
  \cup
  {[default_policy |-> "allowed",
    classes |-> <<>>,
    passages |-> <<[id |-> "canal", status |-> [panamax |-> "restricted"],
                    feature_ids |-> <<Num(3)>>]>>]}
  \cup
  {[default_policy |-> "allowed",
    classes |-> <<"default">>,
    passages |-> <<[id |-> "canal", status |-> [default |-> "forbidden"],
                    feature_ids |-> <<Num(3)>>]>>]}

\* Points given to getShortestPath: vertices of the network and one point that
\* is none.
PathPoints == {<<-120, 0>>, <<0, 0>>, <<60, 0>>, <<120, 0>>, <<180, 0>>, <<90, 0>>}

\* Raw points given to getShortestRoute.
RoutePoints == {<<-121, 2>>, <<1, -1>>, <<58, 1>>, <<119, 0>>, <<-178, 0>>}

ProfileNames == {"default", "panamax", "supertanker"}

Init ==
  /\ phase = "Uninitialized"
  /\ network \in Networks
  /\ maritimeProfiles \in SeaConfigs
  /\ options \in {[restrictedMultiplier |-> m] : m \in Multipliers}
  /\ coordinateLookup = [vertices |-> <<>>, index |-> FALSE]
  /\ tripled = <<>>
  /\ pathfinders = <<>>
  /\ effective = <<>>
  /\ rules = <<>>
  /\ weightCall = NoWeightCall
  /\ geoCall = NoGeoCall
  /\ result = NoResult
  /\ history = <<>>
  /\ ch = NoSeaRouteCH

\* buildNetworkInfrastructure, first half: new CoordinateLookup(this.network)
BuildIndex ==
  /\ phase = "Uninitialized"
  /\ coordinateLookup' = buildIndex(network)
  /\ phase' = "IndexBuilt"
  /\ UNCHANGED <<ch, history, varsProfiles, varsGeo, network, options, tripled, pathfinders, result>>

\* buildNetworkInfrastructure, second half
Triplicate ==
  /\ phase = "IndexBuilt"
  /\ tripled' = triplicateGeoJSON(network)
  /\ phase' = "NetworkTriplicated"
  /\ UNCHANGED <<ch, history, varsProfiles, varsGeo, network, options, coordinateLookup,
                 pathfinders, result>>

\* A mutation of CreateDefaultPathfinder: the error of the search structure is
\* swallowed and construction goes on.
CreateDefaultPathfinderSwallowsError ==
  /\ phase = "NetworkTriplicated"
  /\ phase' = "DefaultBuilt"
  /\ pathfinders' = [n \in {"default"} |-> PathFinder(tripled, "default", <<>>, 0)]
  /\ UNCHANGED <<ch, history, varsProfiles, varsGeo, network, options, coordinateLookup,
                 tripled, result>>

\* createDefaultPathfinder; an error thrown by the constructor of the search
\* structure leaves init, which rethrows it, and then the SeaRoute constructor.
CreateDefaultPathfinder ==
  /\ phase = "NetworkTriplicated"
  /\ LET defaultPathfinder == PathFinder(tripled, "default", <<>>, 0) IN
       IF NoForks(defaultPathfinder)
         THEN /\ phase' = "Failed"
              /\ UNCHANGED pathfinders
       ELSE /\ phase' = "DefaultBuilt"
            /\ pathfinders' = [n \in {"default"} |-> defaultPathfinder]
  /\ UNCHANGED <<ch, history, varsProfiles, varsGeo, network, options, coordinateLookup,
                 tripled, result>>

\* createMaritimePathfinders: the search structures of the classes are added to
\* the map under the names of the classes; an error thrown by
\* buildMaritimePathfinders leaves init and the constructor.
CreateMaritimePathfinders ==
  /\ phase = "DefaultBuilt"
  /\ LET maritimeResult ==
           buildMaritimePathfinders(maritimeProfiles, tripled,
                                    options.restrictedMultiplier)
     IN IF maritimeResult.outcome = "error"
          THEN /\ phase' = "Failed"
               /\ UNCHANGED <<effective, rules, pathfinders>>
        ELSE /\ phase' = "Ready"
             /\ effective' = maritimeResult.effectiveStatus
             /\ rules' = maritimeResult.rules
             /\ pathfinders' =
                  [n \in DOMAIN pathfinders \cup DOMAIN maritimeResult.pathFinders |->
                     IF n \in DOMAIN maritimeResult.pathFinders
                       THEN maritimeResult.pathFinders[n]
                     ELSE pathfinders[n]]
  /\ UNCHANGED <<ch, history, maritimeProfiles, weightCall, varsGeo, network, options,
                 coordinateLookup, tripled, result>>

\* One query is followed per behaviour: a query writes no field of the
\* instance.
GetShortestPath ==
  /\ phase = "Ready" /\ result.op = "none"
  /\ \E a \in PathPoints, b \in PathPoints, profile \in ProfileNames,
        path \in BOOLEAN :
       result' \in getShortestPath("getShortestPath", a, b, a, b, profile, path)
  /\ history' = Append(history, result')
  /\ UNCHANGED <<ch, phase, varsProfiles, varsGeo, varsInstance>>

GetShortestRoute ==
  /\ phase = "Ready" /\ result.op = "none"
  /\ \E a \in RoutePoints, b \in RoutePoints, profile \in ProfileNames,
        path \in BOOLEAN :
       result' \in getShortestRoute(a, b, profile, path)
  /\ history' = Append(history, result')
  /\ UNCHANGED <<ch, phase, varsProfiles, varsGeo, varsInstance>>

GetPathFinder ==
  /\ phase = "Ready" /\ result.op = "none"
  /\ \E profileName \in ProfileNames :
       LET pathfinder == getPathFinder(profileName) IN
         result' = [NoResult EXCEPT !.op = "getPathFinder",
                                    !.profile = profileName,
                                    !.outcome = pathfinder.outcome,
                                    !.error = pathfinder.error,
                                    !.available = pathfinder.available]
  /\ history' = Append(history, result')
  /\ UNCHANGED <<ch, phase, varsProfiles, varsGeo, varsInstance>>

Next ==
  \/ BuildIndex
  \/ Triplicate
  \/ CreateDefaultPathfinder
  \/ CreateMaritimePathfinders
  \/ GetShortestPath
  \/ GetShortestRoute
  \/ GetPathFinder

Spec == Init /\ [][Next]_vars

(***************************************************************************)
(* Claims about the SeaRoute instance, checked under Spec                  *)
(***************************************************************************)
\* The query of the state was answered with a feature.
Answered ==
  /\ result.op \in {"getShortestPath", "getShortestRoute"}
  /\ result.outcome = "ok"

\* The query of the state used the profile of a vessel class.
ClassProfileUsed == result.profile \in Range(Classes(maritimeProfiles))

\* Some lane of the triplicated network runs between p and q and its feature id
\* is forbidden for the class.
ForbiddenLane(clazz, p, q) ==
  \E sg \in Segments(tripled) :
    /\ {sg.a, sg.b} = {p, q}
    /\ normalizeFid(sg.props.fid) \in rules[clazz].forbidden

\* C3: a result of getShortestPath or getShortestRoute with the profile of a
\* class never runs over a lane whose feature id is forbidden for the class; when
\* every connection uses such a lane the query returns null, not a path of
\* infinite weight.
C3_NeverForbidden ==
  (Answered /\ ClassProfileUsed) =>
    /\ result.feature.properties.weight # Infinity
    /\ \A i \in 1..(Len(result.enginePath) - 1) :
         ~ForbiddenLane(result.profile, result.enginePath[i], result.enginePath[i + 1])

\* C7: every coordinate a query hands back, the two points of the MultiPoint or
\* the points of the path, has its longitude in [-180, 180].
C7_ReturnedLongitudes ==
  Answered =>
    \A i \in DOMAIN result.feature.geometry.coordinates :
      /\ result.feature.geometry.coordinates[i][1] >= -180
      /\ result.feature.geometry.coordinates[i][1] <= 180

\* C10: getShortestRoute(a, b) and getShortestRoute(b, a) report the same
\* distance and distanceNM for every profile, also for a pair that crosses the
\* antimeridian (and one is null or fails exactly when the other does).
C10_RouteSymmetry ==
  result.op = "getShortestRoute" =>
    \A back \in getShortestRoute(result.b, result.a, result.profile, result.path) :
      /\ back.outcome = result.outcome
      /\ back.feature.properties.distance = result.feature.properties.distance
      /\ back.feature.properties.distanceNM = result.feature.properties.distanceNM

C10_Witness ==
  /\ result.op = "getShortestRoute"
  /\ Answered
  /\ result.a = <<119, 0>> /\ result.b = <<-121, 2>>
  /\ result.snapped = <<<<120, 0>>, <<-120, 0>>>>
  /\ result.feature.properties.distance = [inf |-> FALSE, km |-> 13343, q |-> 1560]
  /\ getShortestRoute(result.b, result.a, result.profile, result.path) # {}

\* The names a query can use: 'default' and the configured vessel classes.
KnownProfiles == {"default"} \cup Range(Classes(maritimeProfiles))

\* C11: getPathFinder, getShortestPath and getShortestRoute called with a
\* profile name that is neither 'default' nor a configured vessel class fail
\* with the error that lists the profile names of the instance, and the set of
\* profiles is the same after the failure as before.
C11_UnknownProfile ==
  [][(result' # result /\ result'.profile \notin KnownProfiles) =>
       /\ result'.outcome = "error"
       /\ result'.error = "Profile not found"
       /\ result'.available = KnownProfiles
       /\ pathfinders' = pathfinders
       /\ DOMAIN pathfinders' = KnownProfiles]_vars

C11_Witness ==
  /\ result.op = "getShortestRoute"
  /\ result.profile = "supertanker"
  /\ result.outcome = "error"
  /\ result.available = {"default", "panamax"}

\* The constructor returned an instance.
Constructed == phase = "Ready"

\* C12: when the configuration has an empty class list (or a search structure
\* cannot be built) the SeaRoute constructor throws and returns no instance:
\* every instance a caller holds has the profile 'default' and one profile for
\* every class, and no query is ever answered by anything else.
C12_NoPartialInstance ==
  /\ (Classes(maritimeProfiles) = <<>> \/ network = EmptyNetwork) => ~Constructed
  /\ Constructed => DOMAIN pathfinders = KnownProfiles
  /\ Constructed => Range(Classes(maritimeProfiles)) # {}
  /\ result.op # "none" => Constructed

C12_Witness ==
  /\ phase = "Failed"
  /\ Classes(maritimeProfiles) = <<>>
  /\ network # EmptyNetwork
  /\ DOMAIN pathfinders = {"default"}
  /\ result = NoResult

\* The steps of construction, in the order of init.
ConstructionSteps ==
  {<<"Uninitialized", "IndexBuilt">>, <<"IndexBuilt", "NetworkTriplicated">>,
   <<"NetworkTriplicated", "DefaultBuilt">>, <<"DefaultBuilt", "Ready">>}

\* What is built in each phase: the index over the raw network first, then the
\* triplicated network, then the profile 'default', then the class profiles.
BuiltSoFar ==
  /\ coordinateLookup =
       IF phase = "Uninitialized" THEN [vertices |-> <<>>, index |-> FALSE]
       ELSE buildIndex(network)
  /\ tripled =
       IF phase \in {"Uninitialized", "IndexBuilt"} THEN <<>>
       ELSE triplicateGeoJSON(network)
  /\ phase \in {"Uninitialized", "IndexBuilt", "NetworkTriplicated"} => pathfinders = <<>>
  /\ phase = "DefaultBuilt" => DOMAIN pathfinders = {"default"}
  /\ phase \in {"DefaultBuilt", "Ready"} => ~NoForks(pathfinders["default"])
  /\ phase = "Ready" =>
       /\ Classes(maritimeProfiles) # <<>>
       /\ DOMAIN pathfinders = {"default"} \cup Range(Classes(maritimeProfiles))
  /\ phase # "Ready" => (result = NoResult /\ history = <<>>)

\* A step of construction or a query, as init and the queries allow it.
OrderedStep ==
  /\ phase # "Failed"
  /\ phase' # phase =>
       (\/ <<phase, phase'>> \in ConstructionSteps
        \/ phase \in {"NetworkTriplicated", "DefaultBuilt"} /\ phase' = "Failed")
  /\ result' # result => (phase = "Ready" /\ phase' = "Ready")

\* C27: construction goes through index, triplication, 'default' profile, class
\* profiles and Ready in this order, one step at a time; a step that fails is
\* the last step, and a query is answered only in Ready.
C27_ConstructionOrder == []BuiltSoFar /\ [][OrderedStep]_vars

\* A route was answered by an instance on which every step was taken.
C27_Witness ==
  /\ phase = "Ready"
  /\ result.op = "getShortestRoute"
  /\ result.outcome = "ok"
  /\ coordinateLookup.index
  /\ Len(tripled) = 3 * Len(network)
  /\ DOMAIN pathfinders = {"default", "panamax"}

\* The feature of the network that the feature k of the tripled network copies.
SourceOf(k) == network[((k - 1) \div 3) + 1]

\* C28: each of the three copies of a feature carries the fid of the source
\* feature, and for every class the weight function gives every segment of a
\* copy the weight it gives the segment of the source feature; that weight is
\* the weight of the copy's edge in the search structure of the class.
C28_CopiesTreatedAlike ==
  /\ \A k \in DOMAIN tripled : tripled[k].properties.fid = SourceOf(k).properties.fid
  /\ phase = "Ready" =>
       \A clazz \in Range(Classes(maritimeProfiles)) : \A k \in DOMAIN tripled :
         LET src == SourceOf(k).geometry.coordinates
             copy == tripled[k].geometry.coordinates
         IN \A n \in 1..(Len(src) - 1) :
              LET w == makeWeightFn(clazz, rules, options.restrictedMultiplier,
                                    src[n], src[n + 1], SourceOf(k).properties)
              IN /\ makeWeightFn(clazz, rules, options.restrictedMultiplier,
                                 copy[n], copy[n + 1], tripled[k].properties) = w
                 /\ w # 0 =>
                      [a |-> copy[n], b |-> copy[n + 1], w |-> w,
                       fid |-> SourceOf(k).properties.fid] \in pathfinders[clazz].edges

\* The canal is restricted for panamax: its edge has the multiplied weight in
\* the three copies.
C28_Witness ==
  /\ phase = "Ready"
  /\ options.restrictedMultiplier = 5
  /\ rules["panamax"].restricted = {Num(3)}
  /\ \A dx \in {-360, 0, 360} :
       [a |-> <<dx, 0>>, b |-> <<60 + dx, 0>>, w |-> 33358475, fid |-> Num(3)]
         \in pathfinders["panamax"].edges

\* C29: on a constructed instance the profile 'default' is the search structure
\* built from the raw distance alone, whatever the class names are, and the
\* profiles are 'default' and the configured classes.
C29_DefaultIsUnrestricted ==
  phase = "Ready" =>
    /\ pathfinders["default"] = PathFinder(tripled, "default", <<>>, 0)
    /\ DOMAIN pathfinders = {"default"} \cup Range(Classes(maritimeProfiles))

\* The vertices of a feature collection of LineStrings.
VerticesOf(graph) ==
  UNION {Range(graph[k].geometry.coordinates) : k \in DOMAIN graph}

\* The vertices of a search structure: the end points of its edges.
PathFinderVertices(pf) == {e.a : e \in pf.edges}

\* C30: for any two vertices a and b of the network, each point returned by
\* normalizePair(a, b) is the argument or its copy 360 degrees to the east, is a
\* vertex of the tripled network and of every search structure, and the two
\* longitudes differ by at most 180; an answered route starts and ends at
\* these two points.
C30_NormalizedPairInNetwork ==
  phase = "Ready" =>
    /\ \A a \in VerticesOf(network), b \in VerticesOf(network) :
         LET pair == normalizePair(a, b) IN
           /\ pair[1] \in {a, shiftLon(a, 360)}
           /\ pair[2] \in {b, shiftLon(b, 360)}
           /\ {pair[1], pair[2]} \subseteq VerticesOf(tripled)
           /\ \A n \in DOMAIN pathfinders :
                {pair[1], pair[2]} \subseteq PathFinderVertices(pathfinders[n])
           /\ Abs(pair[1][1] - pair[2][1]) <= 180
    /\ (result.op = "getShortestRoute" /\ result.outcome = "ok") =>
         LET pair == normalizePair(result.snapped[1], result.snapped[2]) IN
           /\ {result.snapped[1], result.snapped[2]} \subseteq VerticesOf(network)
           /\ result.enginePath[1] = pair[1]
           /\ result.enginePath[Len(result.enginePath)] = pair[2]

\* A route from -120 to 120 is searched from the copy of the start at 240.
C30_Witness ==
  /\ result.op = "getShortestRoute"
  /\ result.outcome = "ok"
  /\ result.snapped = <<<<-120, 0>>, <<120, 0>>>>
  /\ result.enginePath[1] = <<240, 0>>
  /\ result.enginePath[Len(result.enginePath)] = <<120, 0>>
  /\ <<240, 0>> \in VerticesOf(tripled)

\* d hundredths of a nautical mile is w quarter metres times 0.539957 / 1000,
\* rounded to two decimals: 0 <= 539957 * w + 20000000 - 40000000 * d < 40000000,
\* computed in digits of base 10000.
RoundsToNM(w, d) ==
  LET w1 == w \div 10000
      w0 == w % 10000
      d1 == d \div 10000
      d0 == d % 10000
      mid == 9957 * w1 + 53 * w0 + 2000 + 40000000 - 4000 * d0
      t == 53 * w1 - 4000 * d1 - 4000 + (mid \div 10000)
      low == (mid % 10000) * 10000 + 9957 * w0
  IN /\ t \in {-1, 0}
     /\ t * 100000000 + low >= 0
     /\ t * 100000000 + low < 40000000

\* The weight the search of the profile of the query gives for its two points.
EngineWeights ==
  LET pair == normalizePair(result.snapped[1], result.snapped[2]) IN
    {res.weight : res \in findPath(pathfinders[result.profile], pair[1], pair[2])}

\* C18: for every query result that is not null, weight is the weight the
\* search of the chosen profile returned, distance is weight / 1000 and
\* distanceNM is (weight / 1000) * 0.539957 rounded to two decimals.
C18_DistanceFromWeight ==
  Answered =>
    LET properties == result.feature.properties
        weight == properties.weight
    IN /\ properties.profile = result.profile
       /\ weight \in EngineWeights
       /\ IF weight = Infinity
            THEN properties.distance.inf /\ properties.distanceNM = Infinity
          ELSE /\ ~properties.distance.inf
               /\ properties.distance.q \in 0..3999
               /\ 4000 * properties.distance.km + properties.distance.q = weight
               /\ RoundsToNM(weight, properties.distanceNM)

C18_Witness ==
  /\ Answered
  /\ result.profile = "panamax"
  /\ result.feature.properties.weight = 33358475
  /\ result.feature.properties.distance = [inf |-> FALSE, km |-> 8339, q |-> 2475]
  /\ result.feature.properties.distanceNM = 450304

\* The sum of the truncated geodesic lengths, in metres, of the edges of a path.
RECURSIVE PathLength(_)
PathLength(path) ==
  IF Len(path) < 2 THEN 0
  ELSE Trunc(haversine(path[1], path[2])) + PathLength(Tail(path))

\* C19: for every profile, the profiles of vessel classes whose path uses
\* restricted passages included, the distance reported for a returned path is
\* the length of that path in kilometres: the sum of the truncated geodesic
\* lengths of its edges divided by 1000.
C19_DistanceIsPathLength ==
  Answered =>
    result.feature.properties.distance =
      distance(Quarters(PathLength(result.enginePath)))

RulesBuilt == phase \in {"rules", "called"}

\* The passages, by their place in the passage order, that list feature id f.
Listing(f) == {i \in DOMAIN effective : f \in Range(effective[i].feature_ids)}

\* The effective statuses for a class of the passages that list f.
StatusesOf(f, clazz) == {effective[i].status[clazz] : i \in Listing(f)}

LastListing(f) == CHOOSE i \in Listing(f) : \A j \in Listing(f) : j <= i

\* The weight the called class gives an edge treated with status s.
WeightOfStatus(s) ==
  CASE s = "forbidden" -> Infinity
    [] s = "restricted" -> CalledBase * weightCall.mult
    [] s = "allowed" -> Quarters(CalledBase)

\* The most restrictive of a set of statuses.
MostRestrictive(S) ==
  IF "forbidden" \in S THEN "forbidden"
  ELSE IF "restricted" \in S THEN "restricted"
  ELSE "allowed"

CalledFid == normalizeFid(weightCall.fid)

\* The passages that list the fid of the call disagree on the called class.
CalledFidConflict ==
  /\ phase = "called"
  /\ CalledFid # Null
  /\ Cardinality(StatusesOf(CalledFid, weightCall.clazz)) > 1

IdsWithStatus(clazz, s) ==
  UNION {Range(effective[i].feature_ids) :
           i \in {k \in DOMAIN effective : effective[k].status[clazz] = s}}

\* C24: collectClassEdgeRules returns an entry for every class of the class
\* list; the forbidden set of a class is exactly the union of the feature_ids of
\* the passages whose effective status for the class is forbidden, and its
\* restricted set exactly the union for the status restricted.
C24_RuleSetsAreUnions ==
  RulesBuilt =>
    /\ DOMAIN rules = Range(Classes(maritimeProfiles))
    /\ \A clazz \in Range(Classes(maritimeProfiles)) :
         /\ rules[clazz].forbidden = IdsWithStatus(clazz, "forbidden")
         /\ rules[clazz].restricted = IdsWithStatus(clazz, "restricted")

\* A class no passage mentions has an entry with two empty sets; a passage that
\* is allowed for panamax lists two ids, and only the id of the forbidden
\* passage is in a set of panamax.
C24_Witness ==
  /\ phase = "rules"
  /\ maritimeProfiles.default_policy = "allowed"
  /\ Len(maritimeProfiles.passages) = 2
  /\ \A i \in 1..2 : "capesize" \notin DOMAIN maritimeProfiles.passages[i].status
  /\ rules["capesize"] = [forbidden |-> {}, restricted |-> {}]
  /\ effective[1].status["panamax"] = "allowed"
  /\ effective[1].feature_ids = <<Num(1), Num(2)>>
  /\ effective[2].status["panamax"] = "forbidden"
  /\ rules["panamax"] = [forbidden |-> {Num(1)}, restricted |-> {}]

(***************************************************************************)
(* SpecQueries: a constructed instance serves a sequence of queries.       *)
(***************************************************************************)
MaxQueries == 3

\* The canal is restricted or forbidden for panamax, the strait forbidden.
QueryConfigs ==
  {cfg \in SeaConfigs :
     /\ Classes(cfg) = <<"panamax">>
     /\ cfg.passages[1].status.panamax \in {"restricted", "forbidden"}
     /\ cfg.passages[2].status # <<>>}

\* Pairs of points for getShortestPath; <<90, 0>> is no vertex.
QueryPathPairs == {<<<<0, 0>>, <<60, 0>>>>, <<<<0, 0>>, <<90, 0>>>>}

\* Pairs of raw points for getShortestRoute.
QueryRoutePairs == {<<<<1, -1>>, <<119, 0>>>>}

\* The instance the constructor returns.
InitQueries ==
  /\ phase = "Ready"
  /\ network = RingNetwork
  /\ maritimeProfiles \in QueryConfigs
  /\ options = [restrictedMultiplier |-> 5]
  /\ coordinateLookup = buildIndex(network)
  /\ tripled = triplicateGeoJSON(network)
  /\ LET maritimeResult ==
           buildMaritimePathfinders(maritimeProfiles, tripled,
                                    options.restrictedMultiplier)
     IN /\ effective = maritimeResult.effectiveStatus
        /\ rules = maritimeResult.rules
        /\ pathfinders =
             [n \in {"default"} \cup DOMAIN maritimeResult.pathFinders |->
                IF n \in DOMAIN maritimeResult.pathFinders
                  THEN maritimeResult.pathFinders[n]
                ELSE PathFinder(tripled, "default", <<>>, 0)]
  /\ weightCall = NoWeightCall
  /\ geoCall = NoGeoCall
  /\ result = NoResult
  /\ history = <<>>
  /\ ch = NoSeaRouteCH

\* A query reads the instance and writes no field of it.
QueryShortestPath ==
  /\ phase = "Ready" /\ Len(history) < MaxQueries
  /\ \E pair \in QueryPathPairs, profile \in ProfileNames :
       result' \in getShortestPath("getShortestPath", pair[1], pair[2],
                                   pair[1], pair[2], profile, TRUE)
  /\ history' = Append(history, result')
  /\ UNCHANGED <<ch, phase, varsProfiles, varsGeo, varsInstance>>

QueryShortestRoute ==
  /\ phase = "Ready" /\ Len(history) < MaxQueries
  /\ \E pair \in QueryRoutePairs, profile \in ProfileNames :
       result' \in getShortestRoute(pair[1], pair[2], profile, FALSE)
  /\ history' = Append(history, result')
  /\ UNCHANGED <<ch, phase, varsProfiles, varsGeo, varsInstance>>

NextQueries == QueryShortestPath \/ QueryShortestRoute

SpecQueries == InitQueries /\ [][NextQueries]_vars

(***************************************************************************)
(* Claims about sequences of queries, checked under SpecQueries            *)
(***************************************************************************)
\* Two queries were made with the same inputs.
SameQuery(q1, q2) ==
  /\ q1.op = q2.op
  /\ q1.a = q2.a /\ q1.b = q2.b
  /\ q1.profile = q2.profile
  /\ q1.path = q2.path

CoastNetwork ==
  <<LineString(Num(1), <<<<0, 0>>, <<10, 0>>, <<10, 10>>>>),
    LineString(Num(2), <<<<10, 10>>, <<0, 10>>>>)>>

LookupNetworks == {EmptyNetwork, CoastNetwork, RingNetwork}

SnapLons == {-181, 0, 4, 6, 10, 29, 60}
SnapLats == {0, 4, 6, 30}

\* Values a [longitude, latitude] pair can be extracted from.
WellFormedInputs ==
  {JsArray(c) : c \in SnapLons \X SnapLats}
  \cup {point(c) : c \in SnapLons \X SnapLats}
  \cup {JsArray(<<4, 6, 100>>)}

\* null, undefined, {}, [], [5], {geometry: null}, {geometry: {coordinates:
\* null}} and {geometry: {coordinates: [5]}}.
MalformedInputs ==
  {JsNull, JsUndefined, JsEmptyObject, JsArray(<<>>), JsArray(<<5>>),
   JsNullGeometry, JsNullCoordinates, point(<<5>>)}

\* The pair a well-formed input holds.
PairOf(input) ==
  IF input.t = "array" THEN <<input.v[1], input.v[2]>>
  ELSE <<input.coordinates.v[1], input.coordinates.v[2]>>

InitLookup ==
  /\ phase = "NoLookup"
  /\ network \in LookupNetworks
  /\ maritimeProfiles = <<>>
  /\ effective = <<>>
  /\ rules = <<>>
  /\ weightCall = NoWeightCall
  /\ geoCall = NoGeoCall
  /\ options = [restrictedMultiplier |-> 5]
  /\ coordinateLookup = [vertices |-> <<>>, index |-> FALSE]
  /\ tripled = <<>>
  /\ pathfinders = <<>>
  /\ result = NoResult
  /\ history = <<>>
  /\ ch = NoSeaRouteCH

\* new CoordinateLookup(network)
NewCoordinateLookup ==
  /\ phase = "NoLookup"
  /\ coordinateLookup' = buildIndex(network)
  /\ phase' = "LookupBuilt"
  /\ UNCHANGED <<ch, history, varsProfiles, varsGeo, network, options, tripled, pathfinders, result>>

\* snapToNearestVertex is pure: one call in a behaviour reaches every pair of a
\* lookup and an input.
SnapToNearestVertex ==
  /\ phase = "LookupBuilt" /\ result.op = "none"
  /\ \E input \in WellFormedInputs \cup MalformedInputs :
       LET snapped == snapToNearestVertex(coordinateLookup, input) IN
         result' = [NoResult EXCEPT !.op = "snapToNearestVertex",
                                    !.input = input,
                                    !.outcome = snapped.outcome,
                                    !.error = snapped.error,
                                    !.snapped = <<snapped.point>>]
  /\ UNCHANGED <<ch, history, phase, varsProfiles, varsGeo, varsInstance>>

NextLookup == NewCoordinateLookup \/ SnapToNearestVertex

SpecLookup == InitLookup /\ [][NextLookup]_vars

(***************************************************************************)
(* Claims about the CoordinateLookup, checked under SpecLookup             *)
(***************************************************************************)
Snapped == result.op = "snapToNearestVertex"

EmptyIndex == Len(coordinateLookup.vertices) = 0

\* C13: snapToNearestVertex returns null, without throwing, when the index is
\* empty (the lookup was built from a network that has no vertices).
C13_EmptyIndexNull ==
  (Snapped /\ EmptyIndex) => result.outcome = "null"

\* C14: building a CoordinateLookup from an empty network succeeds with zero
\* vertices and a null index; snapToNearestVertex of a well-formed point on it
\* throws 'No spatial index available (empty network).', and so getShortestRoute
\* over such a lookup fails with that error and returns no result.
C14_EmptyNetworkThrows ==
  (phase = "LookupBuilt" /\ network = EmptyNetwork) =>
    /\ coordinateLookup = [vertices |-> <<>>, index |-> FALSE]
    /\ (Snapped /\ result.input \in WellFormedInputs) =>
         /\ result.outcome = "error"
         /\ result.error = "No spatial index available (empty network)."
    /\ \A a \in RoutePoints, b \in RoutePoints, profile \in ProfileNames :
         \A r \in getShortestRoute(a, b, profile, TRUE) :
           /\ r.outcome = "error"
           /\ r.error = "No spatial index available (empty network)."

C14_Witness ==
  /\ Snapped
  /\ network = EmptyNetwork
  /\ result.input = point(<<4, 6>>)
  /\ result.outcome = "error"

\* C15: snapToNearestVertex returns null, without throwing, for every input
\* from which no [longitude, latitude] pair can be extracted, whatever the state
\* of the index, a lookup built from an empty network included.
C15_MalformedIsNull ==
  (Snapped /\ result.input \in MalformedInputs) =>
    /\ result.outcome = "null"
    /\ result.error = ""

C15_Witness ==
  /\ Snapped
  /\ EmptyIndex
  /\ result.input = JsNullCoordinates
  /\ result.outcome = "null"

Override(active, s) ==
  [id |-> "closure", active |-> active,
   actions |-> <<[type |-> "set_status", passage_id |-> PassageIds[1],
                  status |-> [panamax |-> s]]>>]

OverrideLists == {<<>>} \cup {<<Override(active, s)>> : active \in BOOLEAN, s \in Status}

OverrideConfigs ==
  {[default_policy |-> d, classes |-> cl, passages |-> ps, overrides |-> ov] :
     d \in Status, cl \in ClassLists, ps \in Passages(0) \cup Passages(1),
     ov \in OverrideLists}

InitOverrides ==
  /\ phase = "config"
  /\ maritimeProfiles \in OverrideConfigs
  /\ effective = <<>>
  /\ rules = <<>>
  /\ weightCall = NoWeightCall
  /\ geoCall = NoGeoCall
  /\ NoInstance

SpecOverrides == InitOverrides /\ [][NextProfiles]_vars

\* The configuration with its overrides list emptied.
WithoutOverrides(cfg) == [cfg EXCEPT !.overrides = <<>>]

EffectiveWithoutOverrides ==
  computeEffectiveStatusNoOverrides(WithoutOverrides(maritimeProfiles),
                                    Classes(maritimeProfiles))

RulesWithoutOverrides ==
  collectClassEdgeRules(EffectiveWithoutOverrides, Classes(maritimeProfiles))

MaxCalls == 3

\* The methods a caller may try on an instance; only findRoute is defined.
CHCalls ==
  {"isReady", "getGraphInfo", "loadGraph", "loadDefaultGraph", "dispose",
   "findClosestPoint", "findRoute"}

CHMethods == {"findRoute"}

\* findRoute(start, end): both arguments are ignored, the query is made
\* between two fixed points through this.lookup and this.finder; nothing is
\* returned.
findRoute(c) ==
  IF c.lookup = "null"
  THEN [outcome |-> "error", error |-> "TypeError: Cannot read properties of null"]
  ELSE IF ~c.files.route
       THEN [outcome |-> "error", error |-> "query failed"]
       ELSE [outcome |-> "undefined", error |-> ""]

\* init(): loads the network, triplicates it, reads eurostat.pbf into a new
\* Graph, creates the finder and the lookup, and runs findRoute().
SeaRouteCH_init(c) ==
  IF ~c.files.network
  THEN [c EXCEPT !.state = "failed"]
  ELSE LET c1 == [c EXCEPT !.network = "eurostat", !.triplicated = "tripled"]
       IN IF ~c.files.pbf
          THEN [c1 EXCEPT !.state = "failed"]
          ELSE LET c2 == [c1 EXCEPT !.graph = "loaded", !.finder = "finder",
                                    !.lookup = "lookup"]
               IN IF findRoute(c2).outcome = "error"
                  THEN [c2 EXCEPT !.state = "failed"]
                  ELSE [c2 EXCEPT !.state = "constructed"]

\* new SeaRouteCH(): the four fields are set to null and init() runs.
SeaRouteCH_constructor(c) ==
  SeaRouteCH_init([c EXCEPT !.network = "null", !.graph = "null",
                            !.finder = "null", !.lookup = "null"])

\* instance[op](...) for a name the class may or may not define.
callCH(c, op) ==
  IF op \in CHMethods
  THEN findRoute(c)
  ELSE [outcome |-> "error", error |-> "TypeError: is not a function"]

InitCH ==
  /\ phase = "NoSeaRouteCH"
  /\ maritimeProfiles = <<>>
  /\ effective = <<>>
  /\ rules = <<>>
  /\ weightCall = NoWeightCall
  /\ geoCall = NoGeoCall
  /\ network = <<>>
  /\ options = [restrictedMultiplier |-> 5]
  /\ coordinateLookup = [vertices |-> <<>>, index |-> FALSE]
  /\ tripled = <<>>
  /\ pathfinders = <<>>
  /\ result = NoResult
  /\ history = <<>>
  /\ \E n \in BOOLEAN, p \in BOOLEAN, r \in BOOLEAN :
       ch = [NoSeaRouteCH EXCEPT !.files = [network |-> n, pbf |-> p, route |-> r]]

NewSeaRouteCH ==
  /\ ch.state = "none"
  /\ ch' = SeaRouteCH_constructor(ch)
  /\ UNCHANGED <<phase, varsProfiles, varsGeo, varsInstance, result, history>>

\* A call of a method the class defines.
CallMethod ==
  /\ ch.state = "constructed"
  /\ Len(history) < MaxCalls
  /\ \E op \in CHMethods :
       LET r == callCH(ch, op)
       IN result' = [NoResult EXCEPT !.op = op, !.outcome = r.outcome, !.error = r.error]
  /\ history' = Append(history, result')
  /\ UNCHANGED <<phase, varsProfiles, varsGeo, varsInstance, ch>>

\* A call of a name the class does not define.
CallMissing ==
  /\ ch.state = "constructed"
  /\ Len(history) < MaxCalls
  /\ \E op \in CHCalls \ CHMethods :
       LET r == callCH(ch, op)
       IN result' = [NoResult EXCEPT !.op = op, !.outcome = r.outcome, !.error = r.error]
  /\ history' = Append(history, result')
  /\ UNCHANGED <<phase, varsProfiles, varsGeo, varsInstance, ch>>

NextCH == NewSeaRouteCH \/ CallMethod \/ CallMissing

SpecCH == InitCH /\ [][NextCH]_vars

\* No call of the history loaded a graph.
NothingLoaded ==
  \A i \in 1..Len(history) :
    history[i].op \in {"loadGraph", "loadDefaultGraph"} => history[i].outcome = "error"

\* C21: an instance on which no graph was loaded is not ready: its graph is
\* null, isReady() returns false, getGraphInfo() returns null, and findRoute
\* and findClosestPoint throw 'Graph not loaded'; dispose() returns it to
\* that state.
C21_NotReadyUntilLoaded ==
  (ch.state = "constructed" /\ NothingLoaded) =>
    /\ ch.graph = "null"
    /\ result.op = "isReady" => result.outcome = "false"
    /\ result.op = "getGraphInfo" => result.outcome = "null"
    /\ result.op \in {"findRoute", "findClosestPoint"} =>
         result.outcome = "error" /\ result.error = "Graph not loaded"
    /\ result.op = "dispose" => result.outcome = "undefined" /\ ch.graph = "null"

====
